---------------------------- MODULE Spec2Model ----------------------------
(***************************************************************************)
(* Model of the proof transcoder of stwo-sol-verifier                      *)
(* (crates/contracts/src/lib.rs): the packed decommitment encoder, the     *)
(* StarkProof -> Solidity Proof conversion and the verification-parameter  *)
(* builder.  Every function is pure; each one is modelled by a             *)
(* specification whose initial states draw the arguments and whose action  *)
(* performs the call.                                                      *)
(***************************************************************************)
EXTENDS Integers, Sequences, FiniteSets, TLC

VARIABLES
    fn,                      \* the function the run calls
    pc,                      \* position in the call: "start", ..., "done" / "panic"
    hash_witness,            \* encode_decommitment_packed: argument
    column_witness,          \* encode_decommitment_packed: argument
    encoded,                 \* encode_decommitment_packed: returned Bytes
    proof,                   \* convert_to_solidity_proof: argument
    composition_polynomial,  \* convert_to_solidity_proof: argument (coordinate polys)
    sol_proof,               \* convert_to_solidity_proof: returned Proof
    components,              \* prepare_verification_params: Vec<FrameworkComponent>
    n_preprocessed_columns,  \* prepare_verification_params: argument
    verification_params,     \* prepare_verification_params: returned Result
    owned,                   \* the caller's bindings that have not been moved away
    rpc,                     \* deploy: what the node answers to the three requests
    deploy_locals,           \* deploy: chain_id, block_number, verifier_address
    deploy_result,           \* deploy: returned Result<DeploymentResult>
    metadata,                \* verify_and_prepare...: argument
    verify_channel,          \* verify_and_prepare...: what the channel has absorbed
    verify_commitment_scheme,\* verify_and_prepare...: the trees committed so far
    locals,                  \* verify_and_prepare...: component, roots, sizes, digest
    calls,                   \* verify_and_prepare...: how often each stage was entered
    verifier_result          \* verify_and_prepare...: returned Result<VerifierInput>

vars == <<fn, pc, hash_witness, column_witness, encoded, proof,
          composition_polynomial, sol_proof, components,
          n_preprocessed_columns, verification_params, owned,
          rpc, deploy_locals, deploy_result, metadata, verify_channel,
          verify_commitment_scheme, locals, calls, verifier_result>>

deployVars == <<rpc, deploy_locals, deploy_result>>

verifyVars == <<metadata, verify_channel, verify_commitment_scheme, locals, calls,
                verifier_result>>

(***************************************************************************)
(* Bounds of the model.                                                    *)
(***************************************************************************)
MaxHashes == 2
MaxColumns == 2

\* value of a variable that the running function does not use
Unused == <<>>

\* the deploy variables of a run that does not deploy
NoDeploy ==
    /\ rpc = Unused
    /\ deploy_locals = Unused
    /\ deploy_result = Unused

\* the variables of verify_and_prepare_on_chain_proof_fibonacci in a run
\* that does not call it
NoVerify ==
    /\ metadata = Unused
    /\ verify_channel = Unused
    /\ verify_commitment_scheme = Unused
    /\ locals = Unused
    /\ calls = Unused
    /\ verifier_result = Unused

\* the M31 modulus 2^31 - 1; base-field values are 0 .. M31_P - 1
M31_P == 2147483647

(***************************************************************************)
(* Sequences over S of length 0 .. n.                                      *)
(***************************************************************************)
SeqsUpTo(S, n) == UNION {[1..k -> S] : k \in 0..n}

(***************************************************************************)
(* Byte-level helpers.                                                     *)
(***************************************************************************)
\* the w low-order bytes of v, most significant first
\* (U256::to_be_bytes with w = 32, u32::to_be_bytes with w = 4)
RECURSIVE to_be_bytes(_, _)
to_be_bytes(v, w) ==
    IF w = 0 THEN <<>> ELSE Append(to_be_bytes(v \div 256, w - 1), v % 256)

\* Vec::extend_from_slice over every element of a sequence of byte slices
RECURSIVE extend_all(_, _)
extend_all(acc, slices) ==
    IF slices = <<>> THEN acc
    ELSE extend_all(acc \o Head(slices), Tail(slices))

\* a 32-byte digest whose bytes depend on the position and on k
DigestOf(k) == [i \in 1..32 |-> (k * 37 + i * 11) % 256]

Digests == {DigestOf(k) : k \in 1..3}

\* column values handed to the encoder are M31 representatives
ColumnValues == {0, 1, 16909060, 305419896, M31_P - 1}

(***************************************************************************)
(* encode_decommitment_packed (lib.rs 46-64)                               *)
(***************************************************************************)
\* variant: column values written least significant byte first
RECURSIVE to_le_bytes(_, _)
to_le_bytes(v, w) ==
    IF w = 0 THEN <<>> ELSE <<v % 256>> \o to_le_bytes(v \div 256, w - 1)

encode_decommitment_packed_le(hw, cw) ==
    extend_all(extend_all(to_be_bytes(Len(hw), 32), hw) \o to_be_bytes(Len(cw), 32),
               [i \in 1..Len(cw) |-> to_le_bytes(cw[i], 4)])

\* variant: abi.encode-style column values, each padded to a 32-byte word
encode_decommitment_packed_padded(hw, cw) ==
    extend_all(extend_all(to_be_bytes(Len(hw), 32), hw) \o to_be_bytes(Len(cw), 32),
               [i \in 1..Len(cw) |-> to_be_bytes(cw[i], 32)])

encode_decommitment_packed(hw, cw) ==
    LET length_bytes == to_be_bytes(Len(hw), 32)
        e1 == <<>> \o length_bytes
        e2 == extend_all(e1, hw)
        column_length_bytes == to_be_bytes(Len(cw), 32)
        e3 == e2 \o column_length_bytes
        e4 == extend_all(e3, [i \in 1..Len(cw) |-> to_be_bytes(cw[i], 4)])
    IN  e4

InitEncode ==
    /\ fn = "encode"
    /\ pc = "start"
    /\ hash_witness \in SeqsUpTo(Digests, MaxHashes)
    /\ column_witness \in SeqsUpTo(ColumnValues, MaxColumns)
    /\ encoded = Unused
    /\ proof = Unused
    /\ composition_polynomial = Unused
    /\ sol_proof = Unused
    /\ components = Unused
    /\ n_preprocessed_columns = 0
    /\ verification_params = Unused
    /\ owned = {}
    /\ NoDeploy
    /\ NoVerify

Encode ==
    /\ fn = "encode"
    /\ pc = "start"
    /\ encoded' = encode_decommitment_packed(hash_witness, column_witness)
    /\ pc' = "done"
    /\ UNCHANGED <<fn, hash_witness, column_witness, proof, composition_polynomial,
                   sol_proof, components, n_preprocessed_columns,
                   verification_params, owned, deployVars, verifyVars>>

\* C3: the packed encoding is the 32-byte big-endian count of the hashes,
\* the 32 raw bytes of each digest in order, the 32-byte big-endian count of
\* the columns, then every column value as 4 big-endian bytes in order, and
\* nothing else.
BEByte(v, w, i) == IF w - i >= 4 THEN 0 ELSE (v \div (256 ^ (w - i))) % 256

C3_PackedLayout ==
    (fn = "encode" /\ pc = "done") =>
        LET nH == Len(hash_witness)
            nC == Len(column_witness)
        IN  /\ DOMAIN encoded = 1..(64 + 32 * nH + 4 * nC)
            /\ \A i \in 1..32 : encoded[i] = BEByte(nH, 32, i)
            /\ \A k \in 1..nH : \A j \in 1..32 :
                   encoded[32 + 32 * (k - 1) + j] = hash_witness[k][j]
            /\ \A i \in 1..32 : encoded[32 + 32 * nH + i] = BEByte(nC, 32, i)
            /\ \A k \in 1..nC : \A j \in 1..4 :
                   encoded[64 + 32 * nH + 4 * (k - 1) + j]
                       = BEByte(column_witness[k], 4, j)

C3_Witness ==
    /\ fn = "encode"
    /\ pc = "done"
    /\ Len(hash_witness) = 2
    /\ hash_witness[1] # hash_witness[2]
    /\ column_witness = <<16909060, 1>>

\* C4: the output is exactly 64 + 32*len(hashes) + 4*len(columns) bytes long,
\* and with both sequences empty it is 64 zero bytes.
C4_PackedLength ==
    (fn = "encode" /\ pc = "done") =>
        /\ Len(encoded) = 64 + 32 * Len(hash_witness) + 4 * Len(column_witness)
        /\ (hash_witness = <<>> /\ column_witness = <<>>)
               => encoded = [i \in 1..64 |-> 0]

C4_Witness ==
    /\ fn = "encode"
    /\ pc = "done"
    /\ hash_witness = <<>>
    /\ column_witness = <<>>
    /\ Len(encoded) = 64


(***************************************************************************)
(* Field elements.  An M31 is its u32 representative; a QM31 is the pair   *)
(* of CM31s <<<<a, b>>, <<c, d>>>>, so that Rust's q.0 .1 .0 is q[1][2].   *)
(* A Solidity QM31 is the record {first: {real, imag}, second: {real,      *)
(* imag}} of the generated binding.                                        *)
(***************************************************************************)
MaxTrees == 2
MaxRows == 2
MaxWitness == 2
MaxInnerLayers == 2
MaxLogLastLayer == 2
MaxPacks == 2

M31Corner == {0, 1, M31_P - 1}

\* every QM31 with components in M31Corner
QM31Corner ==
    {<<<<a, b>>, <<c, d>>>> : a \in M31Corner, b \in M31Corner,
                               c \in M31Corner, d \in M31Corner}

\* a QM31 with four different components, different for different k
QElem(k) == <<<<4 * k + 1, 4 * k + 2>>, <<4 * k + 3, 4 * k + 4>>>>

SolCM31(re, im) == [real |-> re, imag |-> im]

SolQM31(f, s) == [first |-> f, second |-> s]

\* variant: second.imag filled from the real part of the second half
sampled_value_to_sol_lossy(qm31) ==
    SolQM31(SolCM31(qm31[1][1], qm31[1][2]), SolCM31(qm31[2][1], qm31[2][1]))

\* sampled values, lib.rs 94-103
sampled_value_to_sol(qm31) ==
    SolQM31(SolCM31(qm31[1][1], qm31[1][2]), SolCM31(qm31[2][1], qm31[2][2]))

\* FRI first-layer witness, lib.rs 130-139
first_layer_witness_to_sol(val) ==
    SolQM31(SolCM31(val[1][1], val[1][2]), SolCM31(val[2][1], val[2][2]))

\* FRI inner-layer witness, lib.rs 168-177
inner_layer_witness_to_sol(val) ==
    SolQM31(SolCM31(val[1][1], val[1][2]), SolCM31(val[2][1], val[2][2]))

\* last-layer polynomial coefficient, lib.rs 209-218
last_layer_coeff_to_sol(v) ==
    SolQM31(SolCM31(v[1][1], v[1][2]), SolCM31(v[2][1], v[2][2]))

(***************************************************************************)
(* stwo::core::utils::bit_reverse, as the transcoder relies on it: in      *)
(* place, element i is swapped with the element at the bit reversal of i   *)
(* over log2(len) bits, once per pair.  Indices are 0-based here.          *)
(***************************************************************************)
RECURSIVE ilog2(_)
ilog2(n) == IF n <= 1 THEN 0 ELSE 1 + ilog2(n \div 2)

RECURSIVE bit_reverse_index(_, _)
bit_reverse_index(i, log_size) ==
    IF log_size = 0 THEN 0
    ELSE (i % 2) * (2 ^ (log_size - 1)) + bit_reverse_index(i \div 2, log_size - 1)

swap(v, i, j) == [v EXCEPT ![i + 1] = v[j + 1], ![j + 1] = v[i + 1]]

RECURSIVE bit_reverse_from(_, _, _)
bit_reverse_from(v, i, log_n) ==
    IF i >= Len(v) THEN v
    ELSE LET j == bit_reverse_index(i, log_n)
         IN  bit_reverse_from(IF j > i THEN swap(v, i, j) ELSE v, i + 1, log_n)

\* variant: the lower slot is overwritten instead of the two being swapped
RECURSIVE bit_reverse_overwrite_from(_, _, _)
bit_reverse_overwrite_from(v, i, log_n) ==
    IF i >= Len(v) THEN v
    ELSE LET j == bit_reverse_index(i, log_n)
         IN  bit_reverse_overwrite_from(
                 IF j > i THEN [v EXCEPT ![i + 1] = v[j + 1]] ELSE v, i + 1, log_n)

bit_reverse_overwrite(v) == bit_reverse_overwrite_from(v, 0, ilog2(Len(v)))

bit_reverse(v) == bit_reverse_from(v, 0, ilog2(Len(v)))

\* LinePoly keeps its coefficients in bit-reversed order;
\* into_ordered_coefficients returns them in natural order
into_ordered_coefficients(line_poly) == bit_reverse(line_poly.coeffs)

(***************************************************************************)
(* convert_to_solidity_proof (lib.rs 66-261)                               *)
(***************************************************************************)
Lanes == 2

\* one coordinate polynomial: coeff.to_array() of every packed coefficient,
\* appended in order (lib.rs 227-234)
RECURSIVE flatten(_)
flatten(packs) ==
    IF packs = <<>> THEN <<>> ELSE Head(packs) \o flatten(Tail(packs))

coordinate_poly_to_solidity(poly) == flatten(poly.coeffs.data)

\* lib.rs 224-235
composition_polynomial_to_solidity(cp) ==
    [k \in 1..Len(cp) |-> coordinate_poly_to_solidity(cp[k])]

\* lib.rs 110-122
decommitment_to_sol(decom) ==
    [hashWitness |-> [i \in 1..Len(decom.hash_witness) |-> decom.hash_witness[i]],
     columnWitness |-> [i \in 1..Len(decom.column_witness) |-> decom.column_witness[i]]]

\* lib.rs 124-157
first_layer_to_sol(layer) ==
    [friWitness |-> [i \in 1..Len(layer.fri_witness) |->
                        first_layer_witness_to_sol(layer.fri_witness[i])],
     decommitment |-> encode_decommitment_packed(layer.decommitment.hash_witness,
                                                 layer.decommitment.column_witness),
     commitment |-> layer.commitment]

\* lib.rs 164-194
inner_layer_to_sol(layer) ==
    [friWitness |-> [i \in 1..Len(layer.fri_witness) |->
                        inner_layer_witness_to_sol(layer.fri_witness[i])],
     decommitment |-> encode_decommitment_packed(layer.decommitment.hash_witness,
                                                 layer.decommitment.column_witness),
     commitment |-> layer.commitment]

\* variant: the coefficients are transcoded without the bit reversal
last_layer_poly_to_sol_unpermuted(line_poly) ==
    LET coeffs == into_ordered_coefficients(line_poly)
    IN  [i \in 1..Len(coeffs) |-> last_layer_coeff_to_sol(coeffs[i])]

\* lib.rs 199-220
last_layer_poly_to_sol(line_poly) ==
    LET coeffs == bit_reverse(into_ordered_coefficients(line_poly))
    IN  [i \in 1..Len(coeffs) |-> last_layer_coeff_to_sol(coeffs[i])]

\* variant: the two FRI configuration scalars exchanged
config_to_sol_swapped(config) ==
    [powBits |-> config.pow_bits,
     friConfig |->
         [logBlowupFactor |-> config.fri_config.log_last_layer_degree_bound,
          logLastLayerDegreeBound |-> config.fri_config.log_blowup_factor,
          nQueries |-> config.fri_config.n_queries]]

\* lib.rs 70-77; U256::from(n_queries) widens the usize and keeps its value
config_to_sol(config) ==
    [powBits |-> config.pow_bits,
     friConfig |->
         [logBlowupFactor |-> config.fri_config.log_blowup_factor,
          logLastLayerDegreeBound |-> config.fri_config.log_last_layer_degree_bound,
          nQueries |-> config.fri_config.n_queries]]

\* variant: the digests collected in reverse
commitments_to_sol_reversed(commitments) ==
    [i \in 1..Len(commitments) |-> commitments[Len(commitments) + 1 - i]]

\* lib.rs 79-84
commitments_to_sol(commitments) ==
    [i \in 1..Len(commitments) |-> commitments[i]]

\* variant: the rows of every column collected in reverse
sampled_values_to_sol_reversed(sv) ==
    [t \in 1..Len(sv) |->
        [c \in 1..Len(sv[t]) |->
            [r \in 1..Len(sv[t][c]) |->
                sampled_value_to_sol(sv[t][c][Len(sv[t][c]) + 1 - r])]]]

\* lib.rs 86-108
sampled_values_to_sol(sv) ==
    [t \in 1..Len(sv) |->
        [c \in 1..Len(sv[t]) |->
            [r \in 1..Len(sv[t][c]) |-> sampled_value_to_sol(sv[t][c][r])]]]

\* variant: the column witness collected in reverse
decommitments_to_sol_reversed(decommitments) ==
    [i \in 1..Len(decommitments) |->
        [hashWitness |-> decommitments[i].hash_witness,
         columnWitness |->
             [k \in 1..Len(decommitments[i].column_witness) |->
                 decommitments[i].column_witness[
                     Len(decommitments[i].column_witness) + 1 - k]]]]

\* lib.rs 110-122
decommitments_to_sol(decommitments) ==
    [i \in 1..Len(decommitments) |-> decommitment_to_sol(decommitments[i])]

\* variant: the layers collected in reverse
inner_layers_to_sol_reversed(layers) ==
    [i \in 1..Len(layers) |-> inner_layer_to_sol(layers[Len(layers) + 1 - i])]

\* lib.rs 159-195
inner_layers_to_sol(layers) ==
    [i \in 1..Len(layers) |-> inner_layer_to_sol(layers[i])]

\* variant: the last two slots exchanged
composition_poly_slots_swapped(cps) ==
    [coeffs0 |-> cps[1], coeffs1 |-> cps[2], coeffs2 |-> cps[4], coeffs3 |-> cps[3]]

\* lib.rs 237-242
composition_poly_slots(cps) ==
    [coeffs0 |-> cps[1], coeffs1 |-> cps[2], coeffs2 |-> cps[3], coeffs3 |-> cps[4]]

\* lib.rs 244-249
queried_values_to_sol(qv) ==
    [t \in 1..Len(qv) |-> [c \in 1..Len(qv[t]) |-> qv[t][c]]]

\* the Proof built when the four indexed coordinate arrays exist
convert_to_solidity_proof(p, cp) ==
    LET sol_config == config_to_sol(p.config)
        commitments == commitments_to_sol(p.commitments)
        sampled_values == sampled_values_to_sol(p.sampled_values)
        decommitments == decommitments_to_sol(p.decommitments)
        first_layer == first_layer_to_sol(p.fri_proof.first_layer)
        inner_layers == inner_layers_to_sol(p.fri_proof.inner_layers)
        fri_proof ==
            [innerLayers |-> inner_layers,
             lastLayerPoly |-> last_layer_poly_to_sol(p.fri_proof.last_layer_poly),
             firstLayer |-> first_layer]
        comp_poly == composition_poly_slots(composition_polynomial_to_solidity(cp))
        queried_values == queried_values_to_sol(p.queried_values)
    IN  [config |-> sol_config,
         commitments |-> commitments,
         sampledValues |-> sampled_values,
         decommitments |-> decommitments,
         queriedValues |-> queried_values,
         proofOfWork |-> p.proof_of_work,
         friProof |-> fri_proof,
         compositionPoly |-> comp_poly]

(***************************************************************************)
(* The arguments the model hands to convert_to_solidity_proof: one default *)
(* proof, and around it every field varied on its own.                     *)
(***************************************************************************)
Decommitments ==
    {[hash_witness |-> h, column_witness |-> c] :
        h \in {<<>>, <<DigestOf(1), DigestOf(2)>>}, c \in {<<>>, <<7, 1>>}}

FriWitnesses == SeqsUpTo({QElem(1), QElem(2)}, MaxWitness)

FriLayers ==
    {[fri_witness |-> w, decommitment |-> d, commitment |-> cm] :
        w \in FriWitnesses, d \in Decommitments, cm \in {DigestOf(1), DigestOf(3)}}

InnerFriLayers ==
    {[fri_witness |-> <<QElem(k), QElem(k + 1)>>,
      decommitment |-> [hash_witness |-> <<DigestOf(k)>>, column_witness |-> <<k>>],
      commitment |-> DigestOf(k)] : k \in 1..3}

CornerLayers ==
    {[fri_witness |-> <<e>>,
      decommitment |-> [hash_witness |-> <<>>, column_witness |-> <<>>],
      commitment |-> DigestOf(1)] : e \in QM31Corner}

\* power-of-two length coefficient vectors with pairwise different entries
LinePolys ==
    {[coeffs |-> [i \in 1..(2 ^ log_n) |-> QElem(i + shift)]] :
        log_n \in 0..MaxLogLastLayer, shift \in 0..2}
    \cup {[coeffs |-> <<e>>] : e \in QM31Corner}

SampledValues ==
    {<<<<<<e>>>>>> : e \in QM31Corner}
    \cup {[t \in 1..nt |-> [c \in 1..(IF ragged THEN t - 1 ELSE nc) |->
                [r \in 1..(IF ragged THEN c ELSE nr) |-> QElem(16 * t + 4 * c + r)]]] :
            nt \in 0..MaxTrees, nc \in 0..2, nr \in 0..MaxRows, ragged \in BOOLEAN}

Configs ==
    {[pow_bits |-> pb,
      fri_config |-> [log_blowup_factor |-> lb,
                      log_last_layer_degree_bound |-> ld,
                      n_queries |-> nq]] :
        pb \in {0, 10}, lb \in {1, 2}, ld \in {0, 1}, nq \in {1, 3}}

QueriedValues == SeqsUpTo(SeqsUpTo({1, 2}, 2), MaxTrees)

\* coordinate polynomials: n of them, each of the same number of packed
\* coefficients, every lane holding a different value
CoordinateCounts == {3, 4, 5}

CompositionPolynomials ==
    {[k \in 1..n |->
        [coeffs |-> [data |-> [q \in 1..np |->
                                  [l \in 1..Lanes |-> 100 * k + 10 * q + l + v]],
                     length |-> np * Lanes]]] :
        n \in CoordinateCounts, np \in 0..MaxPacks, v \in 0..1}

DefaultCompositionPolynomial ==
    [k \in 1..4 |->
        [coeffs |-> [data |-> <<[l \in 1..Lanes |-> 100 * k + l]>>,
                     length |-> Lanes]]]

DefaultLayer ==
    [fri_witness |-> <<QElem(1), QElem(2)>>,
     decommitment |-> [hash_witness |-> <<DigestOf(1)>>, column_witness |-> <<7>>],
     commitment |-> DigestOf(3)]

\* the configuration is the one prove_fibonacci sets up (prove.rs 37-40)
DefaultProof ==
    [config |-> [pow_bits |-> 10,
                 fri_config |-> [log_blowup_factor |-> 1,
                                 log_last_layer_degree_bound |-> 1,
                                 n_queries |-> 3]],
     commitments |-> <<DigestOf(1), DigestOf(2)>>,
     sampled_values |-> <<<<>>, <<<<QElem(1)>>, <<QElem(2)>>, <<QElem(3)>>>>>>,
     decommitments |-> <<[hash_witness |-> <<>>, column_witness |-> <<>>],
                         [hash_witness |-> <<DigestOf(3)>>, column_witness |-> <<5>>]>>,
     queried_values |-> <<<<>>, <<<<1>>, <<2>>, <<3>>>>>>,
     proof_of_work |-> 42,
     fri_proof |-> [first_layer |-> DefaultLayer,
                    inner_layers |-> <<DefaultLayer>>,
                    last_layer_poly |-> [coeffs |-> <<QElem(7), QElem(8)>>]]]

Proofs ==
    {[DefaultProof EXCEPT !.config = x] : x \in Configs}
    \cup {[DefaultProof EXCEPT !.commitments = x] : x \in SeqsUpTo(Digests, MaxTrees)}
    \cup {[DefaultProof EXCEPT !.sampled_values = x] : x \in SampledValues}
    \cup {[DefaultProof EXCEPT !.decommitments = x] :
             x \in SeqsUpTo(Decommitments, MaxTrees)}
    \cup {[DefaultProof EXCEPT !.queried_values = x] : x \in QueriedValues}
    \cup {[DefaultProof EXCEPT !.proof_of_work = x] : x \in {0, 42}}
    \cup {[DefaultProof EXCEPT !.fri_proof.first_layer = x] :
             x \in FriLayers \cup CornerLayers}
    \cup {[DefaultProof EXCEPT !.fri_proof.inner_layers = x] :
             x \in SeqsUpTo(InnerFriLayers, MaxInnerLayers)
                   \cup {<<l>> : l \in CornerLayers}}
    \cup {[DefaultProof EXCEPT !.fri_proof.last_layer_poly = x] : x \in LinePolys}

InitConvert ==
    /\ fn = "convert"
    /\ pc = "start"
    /\ \/ /\ proof \in Proofs
          /\ composition_polynomial = DefaultCompositionPolynomial
       \/ /\ proof = DefaultProof
          /\ composition_polynomial \in CompositionPolynomials
    /\ sol_proof = Unused
    /\ hash_witness = Unused
    /\ column_witness = Unused
    /\ encoded = Unused
    /\ components = Unused
    /\ n_preprocessed_columns = 0
    /\ verification_params = Unused
    /\ owned = {"proof", "composition_polynomial"}
    /\ NoDeploy
    /\ NoVerify

\* the arguments convert_to_solidity_proof takes by value (lib.rs 67-68):
\* the call moves them out of the caller
\* variant: the transcoder borrows its arguments
convert_consumes_nothing == {}

convert_consumes == {"proof", "composition_polynomial"}

\* The function returns Proof, not a Result.  Indexing the collected
\* coordinate arrays at [0] .. [3] (lib.rs 238-241) aborts the call when
\* fewer than four were collected; nothing else can stop it.
Convert ==
    /\ fn = "convert"
    /\ pc = "start"
    /\ IF Len(composition_polynomial_to_solidity(composition_polynomial)) < 4
       THEN /\ pc' = "panic"
            /\ sol_proof' = sol_proof
       ELSE /\ pc' = "done"
            /\ sol_proof' = convert_to_solidity_proof(proof, composition_polynomial)
    /\ owned' = owned \ convert_consumes
    /\ UNCHANGED <<fn, hash_witness, column_witness, encoded, proof,
                   composition_polynomial, components, n_preprocessed_columns,
                   verification_params, deployVars, verifyVars>>

(***************************************************************************)
(* prepare_verification_params (lib.rs 263-323)                            *)
(*                                                                         *)
(* A component is the record of what the function reads from it.  A mask   *)
(* offset is an isize, kept as [hi, lo] with value hi * 2^31 + lo and      *)
(* 0 <= lo < 2^31, so that values outside the i32 range can be written.    *)
(***************************************************************************)
MaxComponents == 3
MaxPreprocessed == 2

\* the isize with the (small) value n
Offset(n) ==
    IF n >= 0 THEN [hi |-> 0, lo |-> n] ELSE [hi |-> -1, lo |-> (M31_P + n) + 1]

\* variant: the sign bit is dropped
as_i32_unsigned(offset) == offset.lo

\* `offset as i32`: the low 32 bits, read as a signed integer (lib.rs 279)
as_i32(offset) ==
    IF offset.hi % 2 = 0 THEN offset.lo ELSE (offset.lo - M31_P) - 1

\* variant: real and imaginary parts of each half exchanged
claimed_sum_to_sol_swapped(cs) ==
    SolQM31(SolCM31(cs[1][2], cs[1][1]), SolCM31(cs[2][2], cs[2][1]))

\* claimed sum, lib.rs 293-302
claimed_sum_to_sol(cs) ==
    SolQM31(SolCM31(cs[1][1], cs[1][2]), SolCM31(cs[2][1], cs[2][2]))

\* lib.rs 272-282
mask_offsets_to_sol(mask_offsets) ==
    [t \in 1..Len(mask_offsets) |->
        [c \in 1..Len(mask_offsets[t]) |->
            [o \in 1..Len(mask_offsets[t][c]) |-> as_i32(mask_offsets[t][c][o])]]]

\* variant: positions counted from one
preprocessed_columns_to_sol_one_based(preprocessed_columns) ==
    [idx \in 1..Len(preprocessed_columns) |-> idx]

\* lib.rs 283-289: the positions of the component's own preprocessed columns
preprocessed_columns_to_sol(preprocessed_columns) ==
    [idx \in 1..Len(preprocessed_columns) |-> idx - 1]

\* variant: every record is built from the first component
component_params_of_first(comps, i) ==
    LET comp == comps[1]
        info == [maxConstraintLogDegreeBound |-> comp.max_constraint_log_degree_bound,
                 logSize |-> comp.log_size,
                 maskOffsets |-> mask_offsets_to_sol(comp.mask_offsets),
                 preprocessedColumns |->
                     preprocessed_columns_to_sol(comp.preprocessed_columns)]
    IN  [logSize |-> info.logSize,
         claimedSum |-> claimed_sum_to_sol(comp.claimed_sum),
         info |-> info]

\* lib.rs 268-306: the record pushed for the i-th component
component_params_of(comps, i) ==
    LET comp == comps[i]
        info == [maxConstraintLogDegreeBound |-> comp.max_constraint_log_degree_bound,
                 logSize |-> comp.log_size,
                 maskOffsets |-> mask_offsets_to_sol(comp.mask_offsets),
                 preprocessedColumns |->
                     preprocessed_columns_to_sol(comp.preprocessed_columns)]
    IN  [logSize |-> info.logSize,
         claimedSum |-> claimed_sum_to_sol(comp.claimed_sum),
         info |-> info]

RECURSIVE max_bound(_)
max_bound(comps) ==
    IF Len(comps) = 1 THEN comps[1].max_constraint_log_degree_bound
    ELSE LET m == max_bound(Tail(comps))
             h == comps[1].max_constraint_log_degree_bound
         IN  IF h > m THEN h ELSE m

\* Components::composition_log_degree_bound of the proving library: the
\* largest constraint degree bound.  Over no components there is no largest
\* one: the call either aborts or yields a bound that means nothing.
composition_log_degree_bound_outcomes(comps) ==
    IF comps = <<>>
    THEN {[ok |-> FALSE, value |-> 0], [ok |-> TRUE, value |-> 0]}
    ELSE {[ok |-> TRUE, value |-> max_bound(comps)]}

\* lib.rs 316-322
prepare_verification_params(comps, n, bound) ==
    [tag |-> "Ok",
     value |-> [componentParams |-> [i \in 1..Len(comps) |-> component_params_of(comps, i)],
                nPreprocessedColumns |-> n,
                componentsCompositionLogDegreeBound |-> bound]]

ComponentA ==
    [log_size |-> 4, max_constraint_log_degree_bound |-> 5,
     claimed_sum |-> QElem(10),
     mask_offsets |-> <<<<>>, <<<<Offset(0)>>, <<Offset(0)>>, <<Offset(0)>>>>>>,
     preprocessed_columns |-> <<>>]

ComponentB ==
    [log_size |-> 5, max_constraint_log_degree_bound |-> 6,
     claimed_sum |-> QElem(20),
     mask_offsets |-> <<<<<<Offset(0)>>>>, <<<<Offset(-1), Offset(0), Offset(1)>>>>>>,
     preprocessed_columns |-> <<"is_first">>]

ComponentC ==
    [log_size |-> 6, max_constraint_log_degree_bound |-> 8,
     claimed_sum |-> <<<<M31_P - 1, 0>>, <<7, M31_P - 2>>>>,
     mask_offsets |-> <<<<<<Offset(0)>>, <<Offset(0)>>>>,
                        <<<<Offset(0), Offset(1)>>, <<Offset(-2)>>>>,
                        <<<<[hi |-> 1, lo |-> 5], [hi |-> -2, lo |-> 3]>>>>>>,
     preprocessed_columns |-> <<"is_first", "seq">>]

CornerComponents == {[ComponentA EXCEPT !.claimed_sum = e] : e \in QM31Corner}

InitParams ==
    /\ fn = "params"
    /\ pc = "start"
    /\ \/ /\ components \in SeqsUpTo({ComponentA, ComponentB, ComponentC}, MaxComponents)
          /\ n_preprocessed_columns \in 0..MaxPreprocessed
       \/ /\ components \in {<<c>> : c \in CornerComponents}
          /\ n_preprocessed_columns = 0
    /\ verification_params = Unused
    /\ hash_witness = Unused
    /\ column_witness = Unused
    /\ encoded = Unused
    /\ proof = Unused
    /\ composition_polynomial = Unused
    /\ sol_proof = Unused
    /\ owned = {}
    /\ NoDeploy
    /\ NoVerify

\* The loop of lib.rs 268-306 runs once per component, then the aggregate
\* bound is asked of the library and the result is returned as Ok; the
\* function has no Err path of its own.
Params ==
    /\ fn = "params"
    /\ pc = "start"
    /\ \E out \in composition_log_degree_bound_outcomes(components) :
          IF out.ok
          THEN /\ pc' = "done"
               /\ verification_params' =
                      prepare_verification_params(components, n_preprocessed_columns,
                                                  out.value)
          ELSE /\ pc' = "panic"
               /\ verification_params' = verification_params
    /\ UNCHANGED <<fn, hash_witness, column_witness, encoded, proof,
                   composition_polynomial, sol_proof, components,
                   n_preprocessed_columns, owned, deployVars,
                   verifyVars>>

(***************************************************************************)
(* STWOVerifierDeployer::deploy (deploy.rs 133-165) with verify_deployment *)
(* (deploy.rs 191-204).  The node's answers are drawn when the run starts; *)
(* an answer is [ok, value], and an Option is [some, value].               *)
(***************************************************************************)
MaxChainAnswers == 2
MaxAddresses == 2

\* Address::ZERO: twenty zero bytes
ADDRESS_ZERO == [i \in 1..20 |-> 0]

\* a non-zero 20-byte address for every k >= 1
AddressOf(k) == [i \in 1..20 |-> (k * 29 + i * 7) % 256]

Answer(v) == [ok |-> TRUE, value |-> v]

Failure == [ok |-> FALSE, value |-> 0]

Some(v) == [some |-> TRUE, value |-> v]

None == [some |-> FALSE, value |-> 0]

\* Result::ok (deploy.rs 139-140)
ok(answer) == IF answer.ok THEN Some(answer.value) ELSE None

NumberAnswers == {Failure} \cup {Answer(n) : n \in 1..MaxChainAnswers}

DeployAnswers ==
    {[ok |-> FALSE, value |-> ADDRESS_ZERO], Answer(ADDRESS_ZERO)}
    \cup {Answer(AddressOf(k)) : k \in 1..MaxAddresses}

\* variant: every address passes
verify_deployment_unchecked(verifier_address) == [ok |-> TRUE, value |-> 0]

\* deploy.rs 191-204: Err for the zero address, Ok(()) otherwise
verify_deployment(verifier_address) ==
    IF verifier_address = ADDRESS_ZERO THEN Failure ELSE [ok |-> TRUE, value |-> 0]

InitDeploy ==
    /\ fn = "deploy"
    /\ pc = "start"
    /\ rpc \in [chain_id : NumberAnswers, block_number : NumberAnswers,
                deploy : DeployAnswers]
    /\ deploy_locals = Unused
    /\ deploy_result = Unused
    /\ hash_witness = Unused
    /\ column_witness = Unused
    /\ encoded = Unused
    /\ proof = Unused
    /\ composition_polynomial = Unused
    /\ sol_proof = Unused
    /\ components = Unused
    /\ n_preprocessed_columns = 0
    /\ verification_params = Unused
    /\ owned = {}
    /\ NoVerify

notDeployVars ==
    <<fn, hash_witness, column_witness, encoded, proof, composition_polynomial,
      sol_proof, components, n_preprocessed_columns, verification_params, owned,
      verifyVars>>

\* deploy.rs 136-148: create_provider cannot fail; the two network queries
\* are kept as Options
NetworkInfo ==
    /\ fn = "deploy"
    /\ pc = "start"
    /\ deploy_locals' = [chain_id |-> ok(rpc.chain_id),
                         block_number |-> ok(rpc.block_number),
                         verifier_address |-> ADDRESS_ZERO]
    /\ pc' = "deploy_tx"
    /\ UNCHANGED <<rpc, deploy_result, notDeployVars>>

\* deploy.rs 151-155: a failed deployment transaction is returned by `?`
DeployContract ==
    /\ fn = "deploy"
    /\ pc = "deploy_tx"
    /\ IF rpc.deploy.ok
       THEN /\ deploy_locals' = [deploy_locals EXCEPT
                                    !.verifier_address = rpc.deploy.value]
            /\ deploy_result' = deploy_result
            /\ pc' = "verify_deployment"
       ELSE /\ deploy_locals' = deploy_locals
            /\ deploy_result' = [tag |-> "Err", error |-> "deploy"]
            /\ pc' = "done"
    /\ UNCHANGED <<rpc, notDeployVars>>

\* deploy.rs 158-164
VerifyDeployment ==
    /\ fn = "deploy"
    /\ pc = "verify_deployment"
    /\ IF verify_deployment(deploy_locals.verifier_address).ok
       THEN deploy_result' =
                [tag |-> "Ok",
                 value |-> [verifier_address |-> deploy_locals.verifier_address,
                            chain_id |-> deploy_locals.chain_id,
                            block_number |-> deploy_locals.block_number]]
       ELSE deploy_result' = [tag |-> "Err", error |-> "zero address"]
    /\ pc' = "done"
    /\ UNCHANGED <<rpc, deploy_locals, notDeployVars>>

(***************************************************************************)
(* verify_and_prepare_on_chain_proof_fibonacci (verify.rs 25-103), one     *)
(* action per stage.  The channel is kept as the sequence of what it has   *)
(* absorbed, and its digest is that sequence: two channels have the same   *)
(* digest exactly when they absorbed the same things in the same order.    *)
(***************************************************************************)
MaxLogSize == 5

PREPROCESSED_TRACE_IDX == 0

\* FibonacciComponent::new with FibonacciEval {log_n_rows} and a zero claimed
\* sum (verify.rs 31-37); the evaluation reads three trace columns at offset
\* 0 and no preprocessed column (fibonacci_circuit.rs 16-34)
fibonacci_component(log_n_rows) ==
    [log_size |-> log_n_rows,
     max_constraint_log_degree_bound |-> log_n_rows + 1,
     claimed_sum |-> <<<<0, 0>>, <<0, 0>>>>,
     mask_offsets |-> <<<<>>, <<<<Offset(0)>>, <<Offset(0)>>, <<Offset(0)>>>>>>,
     preprocessed_columns |-> <<>>]

\* Component::trace_log_degree_bounds: the component's log size for every
\* column of every tree it reads
trace_log_degree_bounds(component) ==
    [t \in 1..Len(component.mask_offsets) |->
        [c \in 1..Len(component.mask_offsets[t]) |-> component.log_size]]

\* CommitmentSchemeVerifier::commit: the root is mixed into the channel and
\* a tree with the extended column sizes is added
commit_channel(channel, root) == Append(channel, [kind |-> "root", value |-> root])

commit_trees(trees, root, log_sizes, log_blowup_factor) ==
    Append(trees, [root |-> root,
                   column_log_sizes |->
                       [c \in 1..Len(log_sizes) |-> log_sizes[c] + log_blowup_factor]])

\* what the off-chain verification draws from and mixes into the channel
verify_channel_after(channel) == Append(channel, [kind |-> "verify", value |-> <<>>])

\* verify.rs 58-67
extended_log_sizes_of(component, log_blowup_factor) ==
    LET bounds == trace_log_degree_bounds(component)
    IN  [t \in 1..Len(bounds) |->
            [c \in 1..Len(bounds[t]) |-> bounds[t][c] + log_blowup_factor]]

\* verify.rs 69-71
roots_bytes32_of(commitments) == <<commitments[1], commitments[2]>>

\* variant: a failed verification does not stop the function
after_verify_ignoring(outcome) == "params"

\* the `?` of verify.rs 83: an Err of the verification is returned at once
after_verify(outcome) == IF outcome.ok THEN "params" ELSE "done"

\* verify.rs 93-100
verifier_input_of(solidity_proof, params, roots, sizes, digest) ==
    [proof |-> solidity_proof,
     verificationParams |-> params,
     treeRoots |-> roots,
     treeColumnLogSizes |-> sizes,
     digest |-> digest,
     nDraws |-> 0]

\* nothing has been returned yet
NoResult == [tag |-> "None"]

VerifyCommitments ==
    {<<>>, <<DigestOf(1)>>, <<DigestOf(1), DigestOf(2)>>, <<DigestOf(2), DigestOf(1)>>,
     <<DigestOf(3), DigestOf(1), DigestOf(2)>>}

VerifyProofs ==
    {[DefaultProof EXCEPT !.commitments = cm, !.config.fri_config.log_blowup_factor = lb] :
        cm \in VerifyCommitments, lb \in {1, 2}}

InitVerify ==
    /\ fn = "verify"
    /\ pc = "start"
    /\ proof \in VerifyProofs
    /\ composition_polynomial = DefaultCompositionPolynomial
    /\ metadata \in {[log_size |-> ls] : ls \in 4..MaxLogSize}
    /\ owned = {"proof", "composition_polynomial"}
    /\ verify_channel = Unused
    /\ verify_commitment_scheme = Unused
    /\ locals = Unused
    /\ calls = [verify |-> 0, params |-> 0, convert |-> 0, verified |-> FALSE]
    /\ verifier_result = NoResult
    /\ sol_proof = Unused
    /\ components = Unused
    /\ n_preprocessed_columns = 0
    /\ verification_params = Unused
    /\ hash_witness = Unused
    /\ column_witness = Unused
    /\ encoded = Unused
    /\ NoDeploy

verifyFrame == <<fn, hash_witness, column_witness, encoded, proof,
                 composition_polynomial, metadata, deployVars>>

\* verify.rs 31-42: the component, the default channel, the empty scheme
VSetup ==
    /\ fn = "verify"
    /\ pc = "start"
    /\ locals' = [component |-> fibonacci_component(metadata.log_size),
                  extended_log_sizes |-> <<>>,
                  roots_bytes32 |-> <<>>,
                  digest |-> <<>>]
    /\ verify_channel' = <<>>
    /\ verify_commitment_scheme' = [config |-> proof.config, trees |-> <<>>]
    /\ pc' = "commit0"
    /\ UNCHANGED <<verifyFrame, sol_proof, components, n_preprocessed_columns,
                   verification_params, owned, calls, verifier_result>>

\* the scheme after the commitment of tree k (counted from 0) of the proof
scheme_after_commit(scheme, component, commitments, k) ==
    [scheme EXCEPT
        !.trees = commit_trees(@, commitments[k + 1],
                               trace_log_degree_bounds(component)[k + 1],
                               scheme.config.fri_config.log_blowup_factor)]

\* verify.rs 45-49; indexing a commitment the proof does not have aborts
VCommit0 ==
    /\ fn = "verify"
    /\ pc = "commit0"
    /\ IF Len(proof.commitments) < 1
       THEN /\ pc' = "panic"
            /\ UNCHANGED <<verify_channel, verify_commitment_scheme>>
       ELSE /\ verify_channel' = commit_channel(verify_channel, proof.commitments[1])
            /\ verify_commitment_scheme' =
                   scheme_after_commit(verify_commitment_scheme, locals.component,
                                       proof.commitments, 0)
            /\ pc' = "commit1"
    /\ UNCHANGED <<verifyFrame, sol_proof, components, n_preprocessed_columns,
                   verification_params, owned, locals, calls, verifier_result>>

\* verify.rs 51-55
VCommit1 ==
    /\ fn = "verify"
    /\ pc = "commit1"
    /\ IF Len(proof.commitments) < 2
       THEN /\ pc' = "panic"
            /\ UNCHANGED <<verify_channel, verify_commitment_scheme>>
       ELSE /\ verify_channel' = commit_channel(verify_channel, proof.commitments[2])
            /\ verify_commitment_scheme' =
                   scheme_after_commit(verify_commitment_scheme, locals.component,
                                       proof.commitments, 1)
            /\ pc' = "roots"
    /\ UNCHANGED <<verifyFrame, sol_proof, components, n_preprocessed_columns,
                   verification_params, owned, locals, calls, verifier_result>>

\* variant: the digest read after the verification has used the channel
channel_digest_after_verify(channel) == verify_channel_after(channel)

\* verify.rs 74: verify_channel.digest() at this point of the function
channel_digest(channel) == channel

\* verify.rs 58-74: sizes, roots and the channel state before verification
VRoots ==
    /\ fn = "verify"
    /\ pc = "roots"
    /\ locals' = [locals EXCEPT
                     !.extended_log_sizes =
                         extended_log_sizes_of(locals.component,
                                               proof.config.fri_config.log_blowup_factor),
                     !.roots_bytes32 = roots_bytes32_of(proof.commitments),
                     !.digest = channel_digest(verify_channel)]
    /\ pc' = "verify"
    /\ UNCHANGED <<verifyFrame, sol_proof, components, n_preprocessed_columns,
                   verification_params, owned, verify_channel,
                   verify_commitment_scheme, calls, verifier_result>>

\* verify.rs 77-83: the library verifies clones of the proof and of the
\* composition polynomial; it accepts or rejects
VVerify ==
    /\ fn = "verify"
    /\ pc = "verify"
    /\ \E outcome \in {[ok |-> TRUE], [ok |-> FALSE]} :
          /\ pc' = after_verify(outcome)
          /\ calls' = [calls EXCEPT !.verify = @ + 1, !.verified = outcome.ok]
          /\ verifier_result' =
                 IF after_verify(outcome) = "done"
                 THEN [tag |-> "Err", error |-> "verify"]
                 ELSE verifier_result
    /\ verify_channel' = verify_channel_after(verify_channel)
    /\ UNCHANGED <<verifyFrame, sol_proof, components, n_preprocessed_columns,
                   verification_params, owned, verify_commitment_scheme, locals>>

\* the `?` of verify.rs 89
after_params(result) == IF result.tag = "Ok" THEN "convert" ELSE "done"

\* verify.rs 84-89
VParams ==
    /\ fn = "verify"
    /\ pc = "params"
    /\ n_preprocessed_columns' =
           Len(verify_commitment_scheme.trees[PREPROCESSED_TRACE_IDX + 1].column_log_sizes)
    /\ components' = <<locals.component>>
    /\ \E out \in composition_log_degree_bound_outcomes(<<locals.component>>) :
          IF out.ok
          THEN LET result == prepare_verification_params(
                                 components', n_preprocessed_columns', out.value)
               IN  /\ verification_params' = result
                   /\ pc' = after_params(result)
                   /\ verifier_result' =
                          IF after_params(result) = "done"
                          THEN [tag |-> "Err", error |-> "params"]
                          ELSE verifier_result
          ELSE /\ verification_params' = verification_params
               /\ pc' = "panic"
               /\ verifier_result' = verifier_result
    /\ calls' = [calls EXCEPT !.params = @ + 1]
    /\ UNCHANGED <<verifyFrame, sol_proof, owned, verify_channel,
                   verify_commitment_scheme, locals>>

\* verify.rs 91: the proof and the polynomial are moved into the transcoder
VConvert ==
    /\ fn = "verify"
    /\ pc = "convert"
    /\ IF Len(composition_polynomial_to_solidity(composition_polynomial)) < 4
       THEN /\ pc' = "panic"
            /\ sol_proof' = sol_proof
       ELSE /\ pc' = "build"
            /\ sol_proof' = convert_to_solidity_proof(proof, composition_polynomial)
    /\ owned' = owned \ convert_consumes
    /\ calls' = [calls EXCEPT !.convert = @ + 1]
    /\ UNCHANGED <<verifyFrame, components, n_preprocessed_columns,
                   verification_params, verify_channel, verify_commitment_scheme,
                   locals, verifier_result>>

\* verify.rs 93-102
VBuild ==
    /\ fn = "verify"
    /\ pc = "build"
    /\ verifier_result' =
           [tag |-> "Ok",
            value |-> verifier_input_of(sol_proof, verification_params.value,
                                        locals.roots_bytes32, locals.extended_log_sizes,
                                        locals.digest)]
    /\ pc' = "done"
    /\ UNCHANGED <<verifyFrame, sol_proof, components, n_preprocessed_columns,
                   verification_params, owned, verify_channel,
                   verify_commitment_scheme, locals, calls>>

Init == InitEncode \/ InitConvert \/ InitParams \/ InitDeploy \/ InitVerify

Next ==
    \/ Encode
    \/ Convert
    \/ Params
    \/ NetworkInfo
    \/ DeployContract
    \/ VerifyDeployment
    \/ VSetup
    \/ VCommit0
    \/ VCommit1
    \/ VRoots
    \/ VVerify
    \/ VParams
    \/ VConvert
    \/ VBuild

Spec == Init /\ [][Next]_vars

(***************************************************************************)
(* Properties.                                                             *)
(***************************************************************************)
\* the four integers of a QM31 in the wire order
Pos(e) == <<e[1][1], e[1][2], e[2][1], e[2][2]>>

\* the four integers of a Solidity QM31 in field order
Fields(q) == <<q.first.real, q.first.imag, q.second.real, q.second.imag>>

Converted == fn = "convert" /\ pc = "done"

Built == fn = "params" /\ pc = "done"

\* C1: at every transcoding site (sampled values, FRI first-layer witness,
\* FRI inner-layer witnesses, last-layer coefficients, claimed sum) the
\* output element is (first.real, first.imag, second.real, second.imag) of
\* an input element; no site reorders the four components.
C1_DecompositionOrder ==
    /\ Converted =>
        /\ \A t \in DOMAIN proof.sampled_values :
             \A c \in DOMAIN proof.sampled_values[t] :
               \A r \in DOMAIN proof.sampled_values[t][c] :
                 Fields(sol_proof.sampledValues[t][c][r])
                     = Pos(proof.sampled_values[t][c][r])
        /\ \A i \in DOMAIN proof.fri_proof.first_layer.fri_witness :
             Fields(sol_proof.friProof.firstLayer.friWitness[i])
                 = Pos(proof.fri_proof.first_layer.fri_witness[i])
        /\ \A l \in DOMAIN proof.fri_proof.inner_layers :
             \A i \in DOMAIN proof.fri_proof.inner_layers[l].fri_witness :
               Fields(sol_proof.friProof.innerLayers[l].friWitness[i])
                   = Pos(proof.fri_proof.inner_layers[l].fri_witness[i])
        /\ \A i \in DOMAIN sol_proof.friProof.lastLayerPoly :
             \E j \in DOMAIN proof.fri_proof.last_layer_poly.coeffs :
               Fields(sol_proof.friProof.lastLayerPoly[i])
                   = Pos(proof.fri_proof.last_layer_poly.coeffs[j])
    /\ Built =>
        \A i \in DOMAIN components :
            Fields(verification_params.value.componentParams[i].claimedSum)
                = Pos(components[i].claimed_sum)

C1_Witness ==
    /\ Built
    /\ Len(components) = 1
    /\ components[1].claimed_sum = <<<<1, 0>>, <<M31_P - 1, 0>>>>

\* C2: decomposing an extension-field element and rebuilding it from the
\* four integers by position gives the element back, so two different
\* elements never decompose to the same four integers.
C2_DecomposeRoundTrip ==
    Converted =>
        LET sv == proof.sampled_values
            Entries ==
                UNION {UNION {{<<t, c, r>> : r \in DOMAIN sv[t][c]} :
                                 c \in DOMAIN sv[t]} : t \in DOMAIN sv}
            In(x) == proof.sampled_values[x[1]][x[2]][x[3]]
            Out(x) == sol_proof.sampledValues[x[1]][x[2]][x[3]]
        IN  /\ \A x \in Entries :
                 <<<<Out(x).first.real, Out(x).first.imag>>,
                   <<Out(x).second.real, Out(x).second.imag>>>> = In(x)
            /\ \A x, y \in Entries : Out(x) = Out(y) => In(x) = In(y)

C2_Witness ==
    /\ Converted
    /\ proof.sampled_values = <<<<<<<<<<1, 0>>, <<M31_P - 1, 1>>>>>>>>>>
    /\ sol_proof.sampledValues[1][1][1].second.real = M31_P - 1

C6_EmptyInput ==
    (fn = "params" /\ pc # "start" /\ components = <<>>)
        => /\ pc = "done"
           /\ verification_params.tag = "Err"
           /\ verification_params.kind = "EmptyInput"

\* C7: componentParams has one record per component, in the components'
\* order, and record i is built from component i and from no other.
C7_ComponentOrder ==
    Built =>
        LET out == verification_params.value.componentParams
        IN  /\ Len(out) = Len(components)
            /\ \A i \in DOMAIN components :
                 LET comp == components[i]
                     rec == out[i]
                 IN  /\ rec.logSize = comp.log_size
                     /\ rec.info.logSize = comp.log_size
                     /\ rec.info.maxConstraintLogDegreeBound
                            = comp.max_constraint_log_degree_bound
                     /\ Fields(rec.claimedSum) = Pos(comp.claimed_sum)
                     /\ Len(rec.info.maskOffsets) = Len(comp.mask_offsets)
                     /\ \A t \in DOMAIN comp.mask_offsets :
                          /\ Len(rec.info.maskOffsets[t]) = Len(comp.mask_offsets[t])
                          /\ \A c \in DOMAIN comp.mask_offsets[t] :
                               /\ Len(rec.info.maskOffsets[t][c])
                                      = Len(comp.mask_offsets[t][c])
                               /\ \A o \in DOMAIN comp.mask_offsets[t][c] :
                                    rec.info.maskOffsets[t][c][o]
                                        = as_i32(comp.mask_offsets[t][c][o])
                     /\ Len(rec.info.preprocessedColumns)
                            = Len(comp.preprocessed_columns)

C7_Witness ==
    /\ Built
    /\ components = <<ComponentC, ComponentA, ComponentB>>
    /\ Len(verification_params.value.componentParams) = 3

\* C8 (as claimed): every record's preprocessedColumns is 0, 1, ...,
\* count - 1 for the count argument passed to the builder.
C8_IndicesUpToArgument ==
    Built =>
        \A i \in DOMAIN components :
            verification_params.value.componentParams[i].info.preprocessedColumns
                = [k \in 1..n_preprocessed_columns |-> k - 1]

\* C8 (amended): every record's preprocessedColumns is 0, 1, ..., k - 1
\* where k is the number of preprocessed columns of that record's own
\* component; the count argument only becomes nPreprocessedColumns.
C8_IndicesOfOwnColumns ==
    Built =>
        /\ verification_params.value.nPreprocessedColumns = n_preprocessed_columns
        /\ \A i \in DOMAIN components :
             verification_params.value.componentParams[i].info.preprocessedColumns
                 = [k \in 1..Len(components[i].preprocessed_columns) |-> k - 1]

C8_Witness ==
    /\ Built
    /\ components = <<ComponentC, ComponentA>>
    /\ n_preprocessed_columns = 1
    /\ verification_params.value.componentParams[1].info.preprocessedColumns = <<0, 1>>

\* the number whose k low bits are those of i in reverse order: bit b of i
\* becomes bit k - 1 - b
RECURSIVE BitRevFrom(_, _, _)
BitRevFrom(i, k, b) ==
    IF b >= k THEN 0
    ELSE ((i \div (2 ^ b)) % 2) * (2 ^ (k - 1 - b)) + BitRevFrom(i, k, b + 1)

BitRev(i, k) == BitRevFrom(i, k, 0)

IsPowerOfTwo(n) == \E k \in 0..(MaxLogLastLayer + 2) : n = 2 ^ k

\* C9: lastLayerPoly has the length n (a power of two) of the canonical
\* coefficients, and element i is the decomposition of canonical
\* coefficient bitrev(i) over log2(n) bits.
C9_LastLayerBitReversed ==
    Converted =>
        LET canonical == into_ordered_coefficients(proof.fri_proof.last_layer_poly)
            out == sol_proof.friProof.lastLayerPoly
            n == Len(canonical)
            k == CHOOSE x \in 0..(MaxLogLastLayer + 2) : n = 2 ^ x
        IN  /\ IsPowerOfTwo(n)
            /\ Len(out) = n
            /\ \A i \in 0..(n - 1) :
                 Fields(out[i + 1]) = Pos(canonical[BitRev(i, k) + 1])

C9_Witness ==
    /\ Converted
    /\ Len(sol_proof.friProof.lastLayerPoly) = 4
    /\ sol_proof.friProof.lastLayerPoly[2] # sol_proof.friProof.lastLayerPoly[3]
    /\ Fields(sol_proof.friProof.lastLayerPoly[2])
           = Pos(into_ordered_coefficients(proof.fri_proof.last_layer_poly)[3])

\* C10: the bit-reversal permutation applied twice to the last-layer
\* coefficients (any sequence of power-of-two length) gives the sequence back.
C10_BitReverseInvolution ==
    fn = "convert" =>
        LET stored == proof.fri_proof.last_layer_poly.coeffs
            ordered == into_ordered_coefficients(proof.fri_proof.last_layer_poly)
        IN  /\ bit_reverse(bit_reverse(stored)) = stored
            /\ bit_reverse(bit_reverse(ordered)) = ordered

C10_Witness ==
    /\ Converted
    /\ Len(proof.fri_proof.last_layer_poly.coeffs) = 4
    /\ bit_reverse(proof.fri_proof.last_layer_poly.coeffs)
           # proof.fri_proof.last_layer_poly.coeffs

\* C11: the transcoded composition polynomial has four coefficient arrays of
\* equal length, and slot k (coeffs0 .. coeffs3) holds the coefficients of
\* coordinate polynomial k of the input, all of them and in their order.
SlotOf(cpoly, k) ==
    CASE k = 1 -> cpoly.coeffs0
      [] k = 2 -> cpoly.coeffs1
      [] k = 3 -> cpoly.coeffs2
      [] k = 4 -> cpoly.coeffs3

\* coefficient i (from 1) of a coordinate polynomial kept in packs of Lanes
CoefficientOf(poly, i) ==
    poly.coeffs.data[((i - 1) \div Lanes) + 1][((i - 1) % Lanes) + 1]

C11_CompositionSlots ==
    Converted =>
        \A k \in 1..4 :
            LET slot == SlotOf(sol_proof.compositionPoly, k)
            IN  /\ Len(slot) = Len(sol_proof.compositionPoly.coeffs0)
                /\ Len(slot) = composition_polynomial[k].coeffs.length
                /\ \A i \in 1..Len(slot) :
                       slot[i] = CoefficientOf(composition_polynomial[k], i)

C11_Witness ==
    /\ Converted
    /\ Len(composition_polynomial) = 4
    /\ Len(sol_proof.compositionPoly.coeffs0) = 2 * Lanes
    /\ sol_proof.compositionPoly.coeffs2 # sol_proof.compositionPoly.coeffs3

\* C12: the transcoded config equals the input config field by field:
\* powBits, logBlowupFactor and logLastLayerDegreeBound unchanged, nQueries
\* with the same numeric value.
C12_ConfigCopied ==
    Converted =>
        /\ sol_proof.config.powBits = proof.config.pow_bits
        /\ sol_proof.config.friConfig.logBlowupFactor
               = proof.config.fri_config.log_blowup_factor
        /\ sol_proof.config.friConfig.logLastLayerDegreeBound
               = proof.config.fri_config.log_last_layer_degree_bound
        /\ sol_proof.config.friConfig.nQueries = proof.config.fri_config.n_queries

C12_Witness ==
    /\ Converted
    /\ proof.config.pow_bits = 10
    /\ proof.config.fri_config.n_queries = 3
    /\ proof.config.fri_config.log_blowup_factor
           # proof.config.fri_config.log_last_layer_degree_bound
    /\ sol_proof.config.powBits = 10
    /\ sol_proof.config.friConfig.nQueries = 3

IsBytes(b) == \A i \in DOMAIN b : b[i] \in 0..255

\* C16: every per-tree decommitment is transcoded as a structured record
\* whose hashWitness and columnWitness have the input's lengths and order,
\* one record per input tree in the same order; only the decommitments
\* inside the FRI layers are packed byte strings.
C16_StructuredDecommitments ==
    Converted =>
        /\ Len(sol_proof.decommitments) = Len(proof.decommitments)
        /\ \A i \in DOMAIN proof.decommitments :
             sol_proof.decommitments[i]
                 = [hashWitness |-> proof.decommitments[i].hash_witness,
                    columnWitness |-> proof.decommitments[i].column_witness]
        /\ LET d == proof.fri_proof.first_layer.decommitment
               b == sol_proof.friProof.firstLayer.decommitment
           IN  /\ IsBytes(b)
               /\ Len(b) = 64 + 32 * Len(d.hash_witness) + 4 * Len(d.column_witness)
        /\ \A l \in DOMAIN proof.fri_proof.inner_layers :
             LET d == proof.fri_proof.inner_layers[l].decommitment
                 b == sol_proof.friProof.innerLayers[l].decommitment
             IN  /\ IsBytes(b)
                 /\ Len(b) = 64 + 32 * Len(d.hash_witness) + 4 * Len(d.column_witness)

C16_Witness ==
    /\ Converted
    /\ Len(proof.decommitments) = 2
    /\ proof.decommitments[1] # proof.decommitments[2]
    /\ proof.decommitments[2].column_witness = <<7, 1>>
    /\ sol_proof.decommitments[2].columnWitness = <<7, 1>>

\* C17: innerLayers has the input's length and layer i of the output is
\* built from layer i of the input; for the first layer and every inner
\* layer the friWitness keeps length and order, the decommitment is the
\* packed encoding of that layer's own witnesses and the commitment is that
\* layer's digest byte for byte.
LayerTranscoded(out, layer) ==
    /\ Len(out.friWitness) = Len(layer.fri_witness)
    /\ \A i \in DOMAIN layer.fri_witness :
         Fields(out.friWitness[i]) = Pos(layer.fri_witness[i])
    /\ out.decommitment
           = encode_decommitment_packed(layer.decommitment.hash_witness,
                                        layer.decommitment.column_witness)
    /\ Len(out.commitment) = 32
    /\ \A j \in 1..32 : out.commitment[j] = layer.commitment[j]

C17_FriLayers ==
    Converted =>
        /\ Len(sol_proof.friProof.innerLayers) = Len(proof.fri_proof.inner_layers)
        /\ LayerTranscoded(sol_proof.friProof.firstLayer, proof.fri_proof.first_layer)
        /\ \A l \in DOMAIN proof.fri_proof.inner_layers :
             LayerTranscoded(sol_proof.friProof.innerLayers[l],
                             proof.fri_proof.inner_layers[l])

C17_Witness ==
    /\ Converted
    /\ Len(proof.fri_proof.inner_layers) = 2
    /\ proof.fri_proof.inner_layers[1] # proof.fri_proof.inner_layers[2]
    /\ sol_proof.friProof.innerLayers[1].commitment
           = proof.fri_proof.inner_layers[1].commitment

\* C18: sampledValues has the shape of the input at all three levels (trees,
\* columns per tree, rows per column) and the entry at (t, c, r) is the
\* decomposition of the input entry at (t, c, r).
C18_SampledValuesShape ==
    Converted =>
        LET sv == proof.sampled_values
            out == sol_proof.sampledValues
        IN  /\ Len(out) = Len(sv)
            /\ \A t \in DOMAIN sv :
                 /\ Len(out[t]) = Len(sv[t])
                 /\ \A c \in DOMAIN sv[t] :
                      /\ Len(out[t][c]) = Len(sv[t][c])
                      /\ \A r \in DOMAIN sv[t][c] :
                           out[t][c][r]
                               = [first |-> [real |-> sv[t][c][r][1][1],
                                             imag |-> sv[t][c][r][1][2]],
                                  second |-> [real |-> sv[t][c][r][2][1],
                                              imag |-> sv[t][c][r][2][2]]]

C18_Witness ==
    /\ Converted
    /\ Len(proof.sampled_values) = 2
    /\ Len(proof.sampled_values[2]) = 2
    /\ proof.sampled_values[1] # proof.sampled_values[2]
    /\ Len(proof.sampled_values[2][1]) = 2
    /\ proof.sampled_values[2][1][1] # proof.sampled_values[2][1][2]

\* an i32 written the way the isize offsets are: [hi, lo] with hi in {-1, 0}
AsOffset(n) ==
    IF n >= 0 THEN [hi |-> 0, lo |-> n] ELSE [hi |-> -1, lo |-> (n + M31_P) + 1]

\* C20: maskOffsets has the three-level shape and order of the component's
\* mask offsets; an offset inside the signed 32-bit range keeps its numeric
\* value (negative stays negative), one outside it is reduced modulo 2^32,
\* and no offset makes the call fail.
C20_MaskOffsetsCast ==
    (fn = "params" /\ pc # "start" /\ components # <<>>) =>
        /\ pc = "done"
        /\ \A i \in DOMAIN components :
             LET mo == components[i].mask_offsets
                 out == verification_params.value.componentParams[i].info.maskOffsets
             IN  /\ Len(out) = Len(mo)
                 /\ \A t \in DOMAIN mo :
                      /\ Len(out[t]) = Len(mo[t])
                      /\ \A c \in DOMAIN mo[t] :
                           /\ Len(out[t][c]) = Len(mo[t][c])
                           /\ \A o \in DOMAIN mo[t][c] :
                                LET in == mo[t][c][o]
                                    res == AsOffset(out[t][c][o])
                                IN  /\ res.lo = in.lo
                                    /\ (in.hi - res.hi) % 2 = 0
                                    /\ in.hi \in {-1, 0} => res = in
                                    /\ in.hi = -1 => out[t][c][o] < 0

C20_Witness ==
    /\ Built
    /\ components = <<ComponentC>>
    /\ verification_params.value.componentParams[1].info.maskOffsets[2][2] = <<-2>>
    /\ verification_params.value.componentParams[1].info.maskOffsets[3][1][1] < 0

Deployed == fn = "deploy" /\ pc = "done"

\* C15: whenever deploy returns Ok the returned verifier_address is not the
\* zero address; a zero address from the deployment transaction makes
\* deploy return an error.
C15_NonZeroAddress ==
    Deployed =>
        /\ deploy_result.tag = "Ok" =>
               \E i \in 1..20 : deploy_result.value.verifier_address[i] # 0
        /\ (rpc.deploy.ok /\ \A i \in 1..20 : rpc.deploy.value[i] = 0)
               => deploy_result.tag = "Err"

C15_Witness ==
    /\ Deployed
    /\ deploy_result.tag = "Ok"
    /\ deploy_result.value.verifier_address = AddressOf(1)


Prepared == fn = "verify" /\ pc = "done"

\* C13: in verify_and_prepare_on_chain_proof_fibonacci a failure of the
\* off-chain verification or of the parameter builder is returned at once
\* and no VerifierInput, partial or complete, exists before or after it; an
\* Ok result is returned only after verification, parameter building and
\* transcoding have each succeeded, and each of them runs at most once.
C13_NoPartialOutput ==
    fn = "verify" =>
        /\ calls.verify <= 1 /\ calls.params <= 1 /\ calls.convert <= 1
        /\ pc # "done" => verifier_result = NoResult
        /\ (calls.verify = 1 /\ ~calls.verified) =>
               /\ pc = "done"
               /\ verifier_result = [tag |-> "Err", error |-> "verify"]
               /\ calls.params = 0 /\ calls.convert = 0
               /\ sol_proof = Unused
        /\ pc = "done" =>
               \/ /\ verifier_result.tag = "Err"
                  /\ calls.convert = 0
                  /\ sol_proof = Unused
               \/ /\ verifier_result.tag = "Ok"
                  /\ calls = [verify |-> 1, params |-> 1, convert |-> 1,
                              verified |-> TRUE]
                  /\ verification_params.tag = "Ok"
                  /\ verifier_result.value =
                         verifier_input_of(
                             convert_to_solidity_proof(proof, composition_polynomial),
                             verification_params.value, locals.roots_bytes32,
                             locals.extended_log_sizes, locals.digest)

C13_Witness ==
    /\ Prepared
    /\ verifier_result.tag = "Err"
    /\ calls.verify = 1
    /\ Len(proof.commitments) = 2

\* C14 as stated: after convert_to_solidity_proof has run the caller's proof
\* and composition polynomial are still usable, not consumed.
C14_InputsStillUsable ==
    (Converted \/ (fn = "verify" /\ calls.convert = 1)) =>
        {"proof", "composition_polynomial"} \subseteq owned

\* C14 amended: no step changes the value of the proof or of the
\* composition polynomial; the off-chain verification works on clones and
\* leaves both with the caller; convert_to_solidity_proof takes both by
\* value, so after it has run the caller has neither.
C14_ReadOnlyButConsumed ==
    [][/\ proof' = proof
       /\ composition_polynomial' = composition_polynomial
       /\ (fn = "verify" /\ pc = "verify") =>
              /\ owned = {"proof", "composition_polynomial"}
              /\ owned' = owned
       /\ ((fn = "convert" /\ pc = "start") \/ (fn = "verify" /\ pc = "convert")) =>
              /\ owned = {"proof", "composition_polynomial"}
              /\ owned' = {}]_vars

C14_Witness ==
    /\ fn = "verify"
    /\ pc = "build"
    /\ calls.verified
    /\ owned = {}
    /\ sol_proof = convert_to_solidity_proof(proof, composition_polynomial)

\* C19: the transcoded commitments have the length of the input's
\* commitments and element i is the 32-byte digest of input commitment i; in
\* the VerifierInput of verify_and_prepare_on_chain_proof_fibonacci
\* treeRoots has exactly two entries, equal to the first two commitments of
\* the transcoded proof.
C19_CommitmentsAndRoots ==
    /\ Converted =>
           /\ Len(sol_proof.commitments) = Len(proof.commitments)
           /\ \A i \in DOMAIN proof.commitments :
                /\ sol_proof.commitments[i] = proof.commitments[i]
                /\ Len(sol_proof.commitments[i]) = 32
                /\ IsBytes(sol_proof.commitments[i])
    /\ (Prepared /\ verifier_result.tag = "Ok") =>
           /\ Len(verifier_result.value.treeRoots) = 2
           /\ \A i \in 1..2 :
                /\ verifier_result.value.treeRoots[i] =
                       verifier_result.value.proof.commitments[i]
                /\ verifier_result.value.treeRoots[i] = proof.commitments[i]

C19_Witness ==
    /\ Prepared
    /\ verifier_result.tag = "Ok"
    /\ Len(verifier_result.value.proof.commitments) = 3
    /\ verifier_result.value.treeRoots = <<DigestOf(3), DigestOf(1)>>

\* the channel after the two commitments, in the order given
CommittedChannel(first, second) ==
    <<[kind |-> "root", value |-> first], [kind |-> "root", value |-> second]>>

\* C21: the digest of the VerifierInput is the channel state after
\* commitment 0 and then commitment 1 were mixed in, in that order, taken
\* before the off-chain verification advances the channel and never equal
\* to the state after it; the verification runs before parameter building
\* and transcoding.
C21_DigestBeforeVerify ==
    fn = "verify" =>
        /\ (pc = "verify" \/ calls.verify = 1) =>
               locals.digest = CommittedChannel(proof.commitments[1], proof.commitments[2])
        /\ pc = "verify" => verify_channel = locals.digest
        /\ calls.verify = 1 =>
               /\ verify_channel = verify_channel_after(locals.digest)
               /\ locals.digest # verify_channel
        /\ (calls.params = 1 \/ calls.convert = 1) =>
               calls.verify = 1 /\ calls.verified
        /\ calls.convert = 1 => calls.params = 1
        /\ (pc = "done" /\ verifier_result.tag = "Ok") =>
               /\ verifier_result.value.digest =
                      CommittedChannel(proof.commitments[1], proof.commitments[2])
               /\ verifier_result.value.digest # verify_channel

C21_Witness ==
    /\ Prepared
    /\ verifier_result.tag = "Ok"
    /\ proof.commitments = <<DigestOf(2), DigestOf(1)>>
    /\ verifier_result.value.digest = CommittedChannel(DigestOf(2), DigestOf(1))
    /\ Len(verify_channel) = 3

=============================================================================
